---- MODULE Spec2Model ----
(***************************************************************************)
(* Model of calc_electromagnetic.py: the cross-section catalogue           *)
(* (sigmaPP, sigmaDPP, sigmaICS, sigmaTPP, getTabulatedXS, getSmin,         *)
(* getEmin), the density-integral cache (calculateDensityIntegral) and the *)
(* driver (process).                                                       *)
(*                                                                         *)
(* Numbers.  Squared energies (s, s_kin) are counted in units of me2 / Q.  *)
(* A value is a pair <<w, lvl>>: w whole units plus a sub-unit remainder   *)
(* whose magnitude is kept as an ordinal level                             *)
(*    0: none,  1: 1e-50 me2,  2: 1e-40 me2,  3: 1e-30 me2,                *)
(*    4: a resolved fraction of a unit (0.1 .. 0.9 unit),                  *)
(* so that pairs compare lexicographically.  Levels 1..3 are below the     *)
(* relative precision of a float64 next to me2: adding me2 absorbs them.   *)
(* Dimensionless quantities (b, beta, logarithms) are fixed point with     *)
(* scale P.  Cross sections are in units of sigmaThomson / P (sigmaPP,     *)
(* sigmaICS), of sigmaThomson * alpha / pi / P (sigmaTPP) and of           *)
(* 1e-36 m^2 / P (sigmaDPP).                                               *)
(***************************************************************************)
EXTENDS Integers, Sequences, FiniteSets, TLC

\* resolution of the model's arithmetic
Q == 2
P == 10000
\* largest s_kin handed to the catalogue, in units of me2
MaxSMe2 == 20
\* longest s_kin array handed to getTabulatedXS
XSLen == 2
\* invocations of process / calculateDensityIntegral
NRuns == 2
\* points of the particle energy grid (281 in the code)
NE == 3
\* lower bounds of the density integral (10000 in the code)
NAlpha == 1
\* points of the coarse s_kin grid (191) and fine points per coarse step (2000)
NCoarse == 4
Ratio == 2
\* largest factor of a cumulative row handed to the downsampling
MaxVal == 2

Me2 == Q                       \* line 10, in units of me2 / Q
MaxS == MaxSMe2 * Q

----------------------------------------------------------------------------
(* fixed-point helpers *)

RECURSIVE Pow2(_)
Pow2(k) == IF k <= 0 THEN 1 ELSE 2 * Pow2(k - 1)

\* floor(a * b / c) for c > 0 without forming a * b
MulDiv(a, b, c) == (a \div c) * b + ((a % c) * b) \div c

RECURSIVE SqrtBS(_, _, _)
SqrtBS(n, lo, hi) ==
  IF lo >= hi THEN lo
  ELSE LET mid == (lo + hi + 1) \div 2
       IN  IF mid * mid <= n THEN SqrtBS(n, mid, hi) ELSE SqrtBS(n, lo, mid - 1)

\* np.sqrt of a fixed-point x in [0, 1]
Sqrt(x) == SqrtBS(x * P, 0, P)

RECURSIVE LnNorm(_, _)
LnNorm(y, k) ==
  IF y >= 2 * P THEN LnNorm(y \div 2, k + 1)
  ELSE IF y < P THEN LnNorm(y * 2, k - 1)
  ELSE <<y, k>>

Ln2 == (6931 * P) \div 10000

\* np.log of a fixed-point y > 0: y = m * 2^k with m in [1, 2),
\* ln m = 2 atanh((m - 1) / (m + 1)) by its series
Ln(y) ==
  LET n  == LnNorm(y, 0)
      m  == n[1]
      z  == MulDiv(m - P, P, m + P)
      z2 == (z * z) \div P
      t3 == (z * z2) \div P
      t5 == (t3 * z2) \div P
      t7 == (t5 * z2) \div P
  IN  n[2] * Ln2 + 2 * (z + t3 \div 3 + t5 \div 5 + t7 \div 7)

\* np.log1p(b) - np.log1p(-b) for a fixed-point b in [0, 1)
LogDiff(b) == Ln(P + b) - Ln(P - b)

RECURSIVE Slice(_, _, _)
Slice(f, lo, hi) ==
  IF lo > hi THEN <<>>
  ELSE IF lo = hi THEN <<f[lo]>>
  ELSE LET mid == (lo + hi) \div 2 IN Slice(f, lo, mid) \o Slice(f, mid + 1, hi)

\* the array f[1..n], its elements computed once
Array(f, n) == Slice(f, 1, n)

\* a float: a number or NaN
Val(v) == [nan |-> FALSE, v |-> v]
NaN == [nan |-> TRUE, v |-> 0]

----------------------------------------------------------------------------
(* ordered pairs <<w, lvl>> *)

PLess(a, b) == a[1] < b[1] \/ (a[1] = b[1] /\ a[2] < b[2])
PMax(a, b) == IF PLess(a, b) THEN b ELSE a
Whole(w) == <<w, 0>>

\* skin + me2 (line 61) in float64: a remainder below the precision is lost
AddMe2(sk) == sk[1] + Me2

----------------------------------------------------------------------------
(* the cross sections, lines 15-53; s in units of me2 / Q *)

sigmaPP(s) ==
  LET smin == 4 * Me2 IN
  IF s < smin THEN Val(0)
  ELSE LET b  == Sqrt(P - MulDiv(smin, P, s))
           bb == (b * b) \div P
           b4 == (bb * bb) \div P
       IN  IF b >= P THEN NaN          \* 0 * inf
           ELSE Val((3 * MulDiv(P - bb,
                                MulDiv(3 * P - b4, LogDiff(b), P)
                                  - MulDiv(2 * b, 2 * P - bb, P),
                                P)) \div 16)

sigmaDPP(s) ==
  LET smin == 16 * Me2 IN
  IF s < smin THEN Val(0)
  ELSE LET x  == P - MulDiv(smin, P, s)
           x2 == (x * x) \div P
           x3 == (x2 * x) \div P
       IN  Val(MulDiv(x3 * x3, 645, P))

sigmaICS(s) ==
  LET smin == Me2 IN
  IF s < smin THEN Val(0)
  ELSE LET b  == MulDiv(s - smin, P, s + smin)
           bb == (b * b) \div P
           b3 == (bb * b) \div P
       IN  IF b = 0 \/ bb = 0 THEN NaN      \* 2 / 0 = inf, inf * 0 = nan
           ELSE LET A == MulDiv(MulDiv(MulDiv(2 * P, P, b), P, P + b),
                                2 * P + 2 * b - bb - 2 * b3, P)
                    B == MulDiv(MulDiv(2 * P - 3 * bb - b3, P, bb), LogDiff(b), P)
                IN  Val(MulDiv(MulDiv(MulDiv(3 * smin, P, 8 * s), P, b), A - B, P))

sigmaTPP(s) ==
  IF s < 0 THEN NaN                    \* np.log of a negative number is nan
  ELSE IF s = 0 THEN Val(0)            \* np.log(0) = -inf, beta < 0
  ELSE LET beta == (28 * Ln(MulDiv(s, P, Me2))) \div 9 - (218 * P) \div 27 IN
       IF beta < 0 THEN Val(0)
       ELSE Val((3 * beta) \div 8)

----------------------------------------------------------------------------
(* the catalogue, lines 56-76 *)

Sigmas == {"sigmaPP", "sigmaDPP", "sigmaTPP", "sigmaICS"}
\* what a caller may pass as sigma: the four functions and any other object
Selectors == Sigmas \cup {"sigmaOther"}

\* a returned value, or a raised exception
Ret(kind, v) == [err |-> "none", kind |-> kind, val |-> v]
Raise(e) == [err |-> e, kind |-> "none", val |-> <<>>]

\* the arguments the cross sections are called with: SLow .. STop
NFine == (NCoarse - 1) * Ratio + 1
SLow == 0 - (Me2 + 1)
STop == (IF MaxS > Pow2(NFine - 1) THEN MaxS ELSE Pow2(NFine - 1)) + Me2
NTab == STop - SLow + 1
\* the cross sections, each evaluated once per argument
TabPP  == Array([i \in 1..NTab |-> sigmaPP(i - 1 + SLow)], NTab)
TabDPP == Array([i \in 1..NTab |-> sigmaDPP(i - 1 + SLow)], NTab)
TabTPP == Array([i \in 1..NTab |-> sigmaTPP(i - 1 + SLow)], NTab)
TabICS == Array([i \in 1..NTab |-> sigmaICS(i - 1 + SLow)], NTab)

\* sigma(s), the call of the function object
Apply(sigma, s) ==
  CASE sigma = "sigmaPP"  -> TabPP[s - SLow + 1]
    [] sigma = "sigmaDPP" -> TabDPP[s - SLow + 1]
    [] sigma = "sigmaTPP" -> TabTPP[s - SLow + 1]
    [] sigma = "sigmaICS" -> TabICS[s - SLow + 1]

getTabulatedXS(sigma, skin) ==
  IF sigma \in {"sigmaPP", "sigmaDPP"}
  THEN Ret("array", Array([i \in 1..Len(skin) |-> Apply(sigma, skin[i][1])], Len(skin)))
  ELSE IF sigma \in {"sigmaTPP", "sigmaICS"}
  THEN Ret("array", Array([i \in 1..Len(skin) |-> Apply(sigma, AddMe2(skin[i]))], Len(skin)))
  ELSE Ret("False", <<>>)

RECURSIVE ExpNorm(_, _)
ExpNorm(x, k) == IF x >= Ln2 THEN ExpNorm(x - Ln2, k + 1) ELSE <<x, k>>

\* np.exp of a fixed-point x >= 0: x = k ln 2 + r, e^r by its series
Exp(x) ==
  LET n  == ExpNorm(x, 0)
      r  == n[1]
      r2 == (r * r) \div P
      r3 == (r2 * r) \div P
      r4 == (r3 * r) \div P
      r5 == (r4 * r) \div P
  IN  Pow2(n[2]) * (P + r + r2 \div 2 + r3 \div 6 + r4 \div 24 + r5 \div 120)

\* x * me2 as a pair, x fixed point
TimesMe2(x) == <<MulDiv(x, Me2, P), IF (x * Me2) % P = 0 THEN 0 ELSE 4>>

\* the thresholds of sigmaPP and sigmaDPP exchanged
getSminSwapped(sigma) ==
  CASE sigma = "sigmaPP"  -> Ret("float", Whole(16 * Me2))
    [] sigma = "sigmaDPP" -> Ret("float", Whole(4 * Me2))
    [] sigma = "sigmaTPP" ->
         Ret("float", TimesMe2(Exp(MulDiv((218 * P) \div 27, 9, 28)) - P))
    [] sigma = "sigmaICS" -> Ret("float", <<0, 2>>)
    [] OTHER -> Raise("KeyError")

getSmin(sigma) ==
  CASE sigma = "sigmaPP"  -> Ret("float", Whole(4 * Me2))
    [] sigma = "sigmaDPP" -> Ret("float", Whole(16 * Me2))
    [] sigma = "sigmaTPP" ->
         Ret("float", TimesMe2(Exp(MulDiv((218 * P) \div 27, 9, 28)) - P))
    [] sigma = "sigmaICS" -> Ret("float", <<0, 2>>)          \* 1e-40 * me2
    [] OTHER -> Raise("KeyError")

\* a photon field (photonField, not part of this file): its name, the
\* definition behind the name, and its photon energy range.  4 * E * eps is
\* in units of me2 / Q for a particle energy E and a photon energy eps.
Field(name, id, emin, emax) == [name |-> name, id |-> id, Emin |-> emin, Emax |-> emax]
FieldSet == { Field("CMB", 1, 1, 4), Field("CMB", 2, 1, 1), Field("URB", 3, 16, 32) }
FieldNames == { f.name : f \in FieldSet }

\* getSmin(sigma) / 4 / field.getEmax(), kept as a quotient
getEmin(sigma, field) ==
  LET smin == getSmin(sigma) IN
  IF smin.err # "none" THEN smin
  ELSE Ret("float", [num |-> smin.val, den |-> 4 * field.Emax])

\* E >= Emin in place of E > Emin
AboveOrAtEmin(E, Emin) == ~PLess(Whole(E * Emin.den), Emin.num)

\* E > Emin for a quotient Emin
AboveEmin(E, Emin) == PLess(Emin.num, Whole(E * Emin.den))

----------------------------------------------------------------------------
(* grids, lines 123, 137, 165, 172: log-spaced, here with ratio 2 *)

\* np.logspace(9, 23, 281) * eV, in units of its first point
EGrid == Array([i \in 1..NE |-> Pow2(i - 1)], NE)
\* np.logspace(4, 23, 380000 + 1) * eV**2
SkinFine == Array([j \in 1..NFine |-> Whole(Pow2(j - 1))], NFine)
\* np.logspace(4, 23, 190 + 1) * eV**2: every Ratio-th point of the fine grid
SkinCoarse == Array([j \in 1..NCoarse |-> Whole(Pow2((j - 1) * Ratio))], NCoarse)
\* np.logspace(4, 23, 2 ** 18 + 1) * eV**2, kept at the fine grid's density
SkinScalar == SkinFine

\* a[a > lo] for an array of pairs
Above(a, lo) == SelectSeq(a, LAMBDA s : PLess(lo, s))

----------------------------------------------------------------------------
(* interactionRate.calc_rate_s: the rate engine, not part of this file *)

Positive(x) == IF ~x.nan /\ x.v > 0 THEN 1 ELSE 0

RECURSIVE Cumulative(_, _, _, _)
\* the running sum over skin[1..j] of the points a particle can reach (s_kin
\* up to top) with a positive cross section, counted
Cumulative(skin, xs, top, j) ==
  IF j = 0 THEN <<>>
  ELSE LET before == Cumulative(skin, xs, top, j - 1)
           last   == IF j = 1 THEN 0 ELSE before[j - 1]
       IN  Append(before, last + (IF ~PLess(Whole(top), skin[j])
                                  THEN Positive(xs[j]) ELSE 0))

\* with cdf one running sum over skin per energy, else its final value
CalcRateS(skin, xs, E, field, cdf) ==
  LET rows == Array([i \in 1..Len(E) |->
                       Cumulative(skin, xs, 4 * E[i] * field.Emax, Len(skin))], Len(E))
  IN  IF cdf THEN rows
      ELSE Array([i \in 1..Len(E) |->
                    IF Len(skin) = 0 THEN 0 ELSE rows[i][Len(skin)]], Len(E))

----------------------------------------------------------------------------
(* np.interp(x, xp, fp), line 174; x and xp in whole units *)

RECURSIVE Segment(_, _, _)
\* the last j <= hi with xp[j] <= x
Segment(x, xp, hi) == IF hi = 1 \/ xp[hi] <= x THEN hi ELSE Segment(x, xp, hi - 1)

\* np.interp(x, xp, fp, right=0)
Interp1RightZero(x, xp, fp) ==
  LET n == Len(xp) IN
  IF x <= xp[1] THEN fp[1]
  ELSE IF x >= xp[n] THEN 0
  ELSE LET j == Segment(x, xp, n - 1)
       IN  fp[j] + MulDiv(x - xp[j], fp[j + 1] - fp[j], xp[j + 1] - xp[j])

Interp1(x, xp, fp) ==
  LET n == Len(xp) IN
  IF x <= xp[1] THEN fp[1]
  ELSE IF x >= xp[n] THEN fp[n]
  ELSE LET j == Segment(x, xp, n - 1)
       IN  fp[j] + MulDiv(x - xp[j], fp[j + 1] - fp[j], xp[j + 1] - xp[j])

Interp(x, xp, fp) ==
  IF Len(xp) = 0 THEN Raise("ValueError")    \* array of sample points is empty
  ELSE Ret("array", Array([k \in 1..Len(x) |-> Interp1(x[k], xp, fp)], Len(x)))

Wholes(a) == Array([k \in 1..Len(a) |-> a[k][1]], Len(a))

----------------------------------------------------------------------------
(* the state *)

VARIABLES
  git,        \* gitHelp: "ok", "raises" (get_git_revision_hash fails), "absent"
  drv,        \* the driver: how many invocations it makes, of which
              \* cross sections, and whether one after the other
  run,        \* per invocation: its position and locals
  densFile,   \* data/fieldDensity/<name>.txt per field name
  rateFile,   \* data/<name>/rate_<field>.txt per process and field name
  cdfFile,    \* data/<name>/cdf_<field>.txt per process and field name
  intCount,   \* per field name, how often the quadrature loop (line 100) ran
  q,          \* a call of the catalogue and its outcome
  ds          \* a call of the downsampling step and its outcome

vars == <<git, drv, run, densFile, rateFile, cdfFile, intCount, q, ds>>

Runs == 1..NRuns
NoFile == [exists |-> FALSE]
NoField == Field("", 0, 0, 1)
Keys == Sigmas \X FieldNames

IdleRun ==
  [pc |-> "idle", kind |-> "none", sigma |-> "none", field |-> NoField,
   E |-> <<>>, err |-> "none", ret |-> "none",
   integrated |-> FALSE, wroteDens |-> FALSE, wroteRate |-> FALSE, wroteCdf |-> FALSE,
   sawFile |-> FALSE, after |-> {}]

NoQuery == [op |-> "none", sigma |-> "none", skin |-> <<>>, field |-> NoField,
            out |-> Ret("none", <<>>)]
NoDs == [stage |-> "none", skin |-> <<>>, save |-> <<>>, row |-> <<>>,
         out |-> Ret("none", <<>>)]

Finished(r) == run[r].pc \in {"done", "failed"}
Fail(r, e) == [run EXCEPT ![r].pc = "failed", ![r].err = e]

\* the existence check left out
IsFileNever(files, field) == FALSE

\* os.path.isfile(folder + field.name + ".txt"), lines 93 and 129
IsFile(files, field) == files[field.name].exists

\* the try / except around gh.get_git_revision_hash(): whether the header
\* carries the provenance line
Provenance == git = "ok"

----------------------------------------------------------------------------
(* the script: imports (lines 1-7) and the call of the driver (211-216)   *)

\* one run of the script: the imports, then the call it makes
Start(r) ==
  /\ run[r].pc = "idle"
  /\ r <= drv.calls
  /\ \A r2 \in Runs : r2 < r => run[r2].pc # "idle"
  /\ drv.serial => \A r2 \in Runs \ {r} : run[r2].pc = "idle" \/ Finished(r2)
  /\ \E kind \in {"process", "cdi"}, field \in drv.fields :
       \E sigma \in IF kind = "process" THEN drv.sigmas ELSE {"none"} :
         run' = IF git = "absent"
                THEN Fail(r, "ImportError")          \* import gitHelp as gh
                ELSE [run EXCEPT ![r].pc = IF kind = "process" THEN "begin" ELSE "cdiCheck",
                                 ![r].kind = kind,
                                 ![r].sigma = sigma,
                                 ![r].field = field,
                                 ![r].ret = "done",
                                 ![r].sawFile = IsFile(densFile, field),
                                 ![r].after = {r2 \in Runs : Finished(r2)}]
  /\ UNCHANGED <<git, drv, densFile, rateFile, cdfFile, intCount, q, ds>>

----------------------------------------------------------------------------
(* calculateDensityIntegral, lines 78-113 *)

\* lines 84-94: the existence check
CdiCheck(r) ==
  /\ run[r].pc = "cdiCheck"
  /\ run' = [run EXCEPT ![r].pc = IF IsFile(densFile, run[r].field)
                                  THEN run[r].ret ELSE "cdiBuild"]
  /\ UNCHANGED <<git, drv, densFile, rateFile, cdfFile, intCount, q, ds>>

\* quad(integrand, a = alpha[i], b = Emax, full_output=1)[0]: the estimate,
\* whether or not the quadrature converged
Quad(converged) == IF converged THEN "integral" ELSE "unconverged"

\* lines 96-113: the quadrature loop and the save
CdiBuild(r) ==
  /\ run[r].pc = "cdiBuild"
  /\ \E conv \in [1..NAlpha -> BOOLEAN] :
       LET name == run[r].field.name
           I_gamma == Array([i \in 1..NAlpha |-> Quad(conv[i])], NAlpha)
       IN  /\ intCount' = [intCount EXCEPT ![name] = @ + 1]
           /\ densFile' = [densFile EXCEPT ![name] =
                             [exists |-> TRUE, id |-> run[r].field.id,
                              vals |-> I_gamma, prov |-> Provenance]]
           /\ run' = [run EXCEPT ![r].pc = run[r].ret,
                                 ![r].integrated = TRUE,
                                 ![r].wroteDens = TRUE]
  /\ UNCHANGED <<git, drv, rateFile, cdfFile, q, ds>>

----------------------------------------------------------------------------
(* process, lines 115-193 *)

\* lines 116-130: the output folder, the energy grid, and whether the
\* density integral is to be calculated
ProcBegin(r) ==
  /\ run[r].pc = "begin"
  /\ LET Emin == getEmin(run[r].sigma, run[r].field)
     IN  run' = IF Emin.err # "none"
                THEN Fail(r, Emin.err)
                ELSE [run EXCEPT ![r].E = SelectSeq(EGrid, LAMBDA e : AboveEmin(e, Emin.val)),
                                 ![r].ret = "rate",
                                 ![r].pc = IF ~IsFile(densFile, run[r].field)
                                           THEN "cdiCheck" ELSE "rate"]
  /\ UNCHANGED <<git, drv, densFile, rateFile, cdfFile, intCount, q, ds>>

\* lines 137-153: the scalar rate and its file
ProcRate(r) ==
  /\ run[r].pc = "rate"
  /\ \E ok \in BOOLEAN :
       LET sigma == run[r].sigma
           field == run[r].field
           xs    == getTabulatedXS(sigma, SkinScalar).val
           rate  == CalcRateS(SkinScalar, xs, run[r].E, field, FALSE)
       IN  IF ~ok
           THEN /\ run' = Fail(r, "IntegrationFailure")
                /\ UNCHANGED rateFile
           ELSE /\ rateFile' = [rateFile EXCEPT ![<<sigma, field.name>>] =
                                  [exists |-> TRUE, E |-> run[r].E, rate |-> rate,
                                   prov |-> Provenance]]
                /\ run' = [run EXCEPT ![r].pc = "cdf", ![r].wroteRate = TRUE]
  /\ UNCHANGED <<git, drv, densFile, cdfFile, intCount, q, ds>>

\* lines 171-174: rate_save
Downsample(skin_save, skin, rate) ==
  LET x    == Wholes(skin_save)
      xp   == Wholes(skin)
      rows == Array([i \in 1..Len(rate) |-> Interp(x, xp, rate[i])], Len(rate))
  IN  IF \E i \in 1..Len(rate) : rows[i].err # "none"
      THEN Raise("ValueError")
      ELSE Ret("array", Array([i \in 1..Len(rate) |-> rows[i].val], Len(rate)))

\* lines 159-193: the cumulative rate, downsampled, and its file
ProcCdf(r) ==
  /\ run[r].pc = "cdf"
  /\ \E ok \in BOOLEAN :
       LET sigma == run[r].sigma
           field == run[r].field
           E     == run[r].E
       IN  IF E = <<>>
           THEN /\ run' = Fail(r, "IndexError")            \* E[0]
                /\ UNCHANGED cdfFile
           ELSE LET skin1     == getSmin(sigma).val
                    skin2     == Whole(4 * field.Emin * E[1])
                    skin_min  == PMax(skin1, skin2)
                    skin      == Above(SkinFine, skin_min)
                    xs        == getTabulatedXS(sigma, skin).val
                    rate      == CalcRateS(skin, xs, E, field, TRUE)
                    skin_save == Above(SkinCoarse, skin_min)
                    rate_save == Downsample(skin_save, skin, rate)
                IN  IF ~ok
                    THEN /\ run' = Fail(r, "IntegrationFailure")
                         /\ UNCHANGED cdfFile
                    ELSE IF rate_save.err # "none"
                    THEN /\ run' = Fail(r, rate_save.err)
                         /\ UNCHANGED cdfFile
                    ELSE /\ cdfFile' = [cdfFile EXCEPT ![<<sigma, field.name>>] =
                                          [exists |-> TRUE, E |-> E, skin |-> skin_save,
                                           rate |-> rate_save.val, prov |-> Provenance]]
                         /\ run' = [run EXCEPT ![r].pc = "done", ![r].wroteCdf = TRUE]
  /\ UNCHANGED <<git, drv, densFile, rateFile, intCount, q, ds>>

----------------------------------------------------------------------------
(* one invocation of any cross section (Spec); invocations of one cross   *)
(* section one after the other (SpecSeq) and interleaved (SpecConc)        *)

Driver(calls, sigmas, fields, serial) ==
  [calls |-> calls, sigmas |-> sigmas, fields |-> fields, serial |-> serial]
SameName == {f \in FieldSet : f.name = "CMB"}
GitStates == {"ok", "raises", "absent"}

InitFiles ==
  /\ run = [r \in Runs |-> IdleRun]
  /\ densFile = [n \in FieldNames |-> NoFile]
  /\ rateFile = [k \in Keys |-> NoFile]
  /\ cdfFile = [k \in Keys |-> NoFile]
  /\ intCount = [n \in FieldNames |-> 0]
  /\ q = NoQuery
  /\ ds = NoDs

Init == git \in GitStates /\ drv = Driver(1, Selectors, FieldSet, TRUE) /\ InitFiles
InitSeq == git \in GitStates /\ drv = Driver(NRuns, {"sigmaICS"}, FieldSet, TRUE) /\ InitFiles
InitConc == git = "ok" /\ drv = Driver(NRuns, {"sigmaICS"}, SameName, FALSE) /\ InitFiles

Next ==
  \E r \in Runs :
    \/ Start(r)
    \/ CdiCheck(r)
    \/ CdiBuild(r)
    \/ ProcBegin(r)
    \/ ProcRate(r)
    \/ ProcCdf(r)

Spec == Init /\ [][Next]_vars
SpecSeq == InitSeq /\ [][Next]_vars
SpecConc == InitConc /\ [][Next]_vars

----------------------------------------------------------------------------
(* the catalogue called on its own (SpecXS) *)

\* s_kin values: below -me2, -me2, just below 0, 0, the three remainders
\* below the float precision, and the whole units 1 .. MaxS
SkinDomain ==
  <<Whole(SLow), Whole(0 - Me2), Whole(-1), Whole(0), <<0, 1>>, <<0, 2>>, <<0, 3>>>>
    \o Array([w \in 1..MaxS |-> Whole(w)], MaxS)

TabulateXS ==
  /\ q.op = "none"
  /\ \E sigma \in Selectors, lo \in 1..Len(SkinDomain), n \in 1..XSLen :
       LET hi   == IF lo + n - 1 > Len(SkinDomain) THEN Len(SkinDomain) ELSE lo + n - 1
           skin == SubSeq(SkinDomain, lo, hi)
       IN  q' = [op |-> "getTabulatedXS", sigma |-> sigma, skin |-> skin,
                 field |-> NoField, out |-> getTabulatedXS(sigma, skin)]
  /\ UNCHANGED <<git, drv, run, densFile, rateFile, cdfFile, intCount, ds>>

QuerySmin ==
  /\ q.op = "none"
  /\ \E sigma \in Selectors :
       q' = [op |-> "getSmin", sigma |-> sigma, skin |-> <<>>,
             field |-> NoField, out |-> getSmin(sigma)]
  /\ UNCHANGED <<git, drv, run, densFile, rateFile, cdfFile, intCount, ds>>

QueryEmin ==
  /\ q.op = "none"
  /\ \E sigma \in Selectors, field \in FieldSet :
       q' = [op |-> "getEmin", sigma |-> sigma, skin |-> <<>>,
             field |-> field, out |-> getEmin(sigma, field)]
  /\ UNCHANGED <<git, drv, run, densFile, rateFile, cdfFile, intCount, ds>>

NoDriver == Driver(0, {}, {}, TRUE)
InitXS == git = "ok" /\ drv = NoDriver /\ InitFiles
NextXS == TabulateXS \/ QuerySmin \/ QueryEmin
SpecXS == InitXS /\ [][NextXS]_vars

----------------------------------------------------------------------------
(* the downsampling step called on its own (SpecDS) *)

RECURSIVE Running(_, _, _)
\* k times the running sum of bits[1..j]
Running(bits, k, j) ==
  IF j = 0 THEN <<>>
  ELSE LET before == Running(bits, k, j - 1)
       IN  Append(before, (IF j = 1 THEN 0 ELSE before[j - 1]) + k * bits[j])

\* the rows handed to the step: over the fine grid above skin_min, with
\* increments 0 or k, k = -1 giving rows that decrease
DsInput(c, bits, k) ==
  LET skin_min == IF c = 0 THEN Whole(0) ELSE SkinFine[c] IN
  [stage |-> "in", skin |-> Above(SkinFine, skin_min),
   save |-> Above(SkinCoarse, skin_min),
   row |-> Running(bits, k, NFine - c), out |-> Ret("none", <<>>)]

DsApply ==
  /\ ds.stage = "in"
  /\ ds' = [ds EXCEPT !.stage = "out",
                      !.out = Downsample(ds.save, ds.skin, <<ds.row>>)]
  /\ UNCHANGED <<git, drv, run, densFile, rateFile, cdfFile, intCount, q>>

InitDS ==
  /\ git = "ok" /\ drv = NoDriver
  /\ run = [r \in Runs |-> IdleRun]
  /\ densFile = [n \in FieldNames |-> NoFile]
  /\ rateFile = [k \in Keys |-> NoFile]
  /\ cdfFile = [k \in Keys |-> NoFile]
  /\ intCount = [n \in FieldNames |-> 0]
  /\ q = NoQuery
  /\ \E c \in 0..NFine, k \in {-1} \cup 1..MaxVal :
       \E bits \in [1..NFine - c -> {0, 1}] : ds = DsInput(c, bits, k)
NextDS == DsApply
SpecDS == InitDS /\ [][NextDS]_vars

NonDecreasing(a) == \A i \in 1..Len(a) - 1 : a[i] <= a[i + 1]

----------------------------------------------------------------------------
(* the claims *)

SameField(r1, r2) == run[r1].field.name = run[r2].field.name

\* C1: invocations for one field name run one after the other: the quadrature
\* loop runs at most once per name, and an invocation that finds the cache
\* file neither integrates nor writes it.
C1_CacheIdempotent ==
  /\ \A n \in FieldNames : intCount[n] <= 1
  /\ \A r \in Runs : run[r].sawFile => ~run[r].integrated /\ ~run[r].wroteDens

\* C1: a second invocation, for another definition under the same name, ran
\* to its end on the file the first one built.
C1_SecondRunSkips ==
  \E r1, r2 \in Runs :
    /\ r1 # r2 /\ SameField(r1, r2) /\ run[r1].field.id # run[r2].field.id
    /\ run[r1].integrated
    /\ run[r2].sawFile /\ run[r2].pc = "done" /\ ~run[r2].integrated
    /\ densFile[run[r1].field.name].id = run[r1].field.id

\* C2: a run of process that failed has persisted neither its rate table nor
\* its cumulative table.
C2_AllOrNothing ==
  \A r \in Runs : run[r].pc = "failed" => ~run[r].wroteRate /\ ~run[r].wroteCdf

RateFileOf(r) == rateFile[<<run[r].sigma, run[r].field.name>>]
InFile(f, e) == \E k \in 1..Len(f.E) : f.E[k] = e
\* 4 * E * Emax against getSmin(sigma)
SminOf(r) == getSmin(run[r].sigma).val
Reachable(r, e) == PLess(SminOf(r), Whole(4 * e * run[r].field.Emax))
Unreachable(r, e) == PLess(Whole(4 * e * run[r].field.Emax), SminOf(r))

\* C3 as stated: the rate table reports a rate of 0 for every energy of the
\* grid below E_min.
C3_ZeroBelowEmin ==
  \A r \in Runs : run[r].wroteRate =>
    \A i \in 1..NE : Unreachable(r, EGrid[i]) =>
      \E k \in 1..Len(RateFileOf(r).E) :
        RateFileOf(r).E[k] = EGrid[i] /\ RateFileOf(r).rate[k] = 0

\* C3 as amended: the rate table has a row for exactly the energies of the
\* grid strictly above E_min; an energy at or below E_min has no row in the
\* table, rather than a row with the rate 0.
C3_RowsAboveEmin ==
  \A r \in Runs : run[r].wroteRate =>
    /\ RateFileOf(r).exists
    /\ \A i \in 1..NE : InFile(RateFileOf(r), EGrid[i]) <=> Reachable(r, EGrid[i])

\* C3: a rate table was written that leaves out a part of the grid.
C3_SomeRowsLeftOut ==
  \E r \in Runs :
    /\ run[r].wroteRate
    /\ Len(RateFileOf(r).E) > 0 /\ Len(RateFileOf(r).E) < NE
    /\ \E i \in 1..NE : Unreachable(r, EGrid[i])

XSCall == q.op = "getTabulatedXS" /\ q.sigma \in Sigmas
NonNegative(x) == ~x.nan /\ x.v >= 0
AsClaimed(sigma, sk, x) ==
  IF PLess(sk, getSmin(sigma).val) THEN x = Val(0) ELSE NonNegative(x)

\* C4 as stated: for each of the four processes the tabulated cross section is
\* 0 for s_kin strictly below getSmin(sigma) and non-negative at and above it.
C4_ZeroBelowSmin ==
  XSCall => \A i \in 1..Len(q.skin) : AsClaimed(q.sigma, q.skin[i], q.out.val[i])

\* C4 as amended: so it is for sigmaPP and sigmaDPP, and for sigmaTPP where
\* s_kin + me2 >= 0 (it is NaN where s_kin + me2 < 0).  For sigmaICS the cross
\* section is 0 where s_kin + me2 < me2, NaN where s_kin + me2 is me2 in
\* float64 (all of 0 <= s_kin <= getSmin(sigmaICS)), and non-negative where
\* s_kin is a resolved part of me2 outside the unstable band.
C4_Thresholds ==
  XSCall => \A i \in 1..Len(q.skin) :
    LET sk == q.skin[i]
        s  == AddMe2(sk)
        x  == q.out.val[i]
    IN  CASE q.sigma \in {"sigmaPP", "sigmaDPP"} -> AsClaimed(q.sigma, sk, x)
          [] q.sigma = "sigmaTPP" ->
               IF s < 0 THEN x.nan ELSE AsClaimed(q.sigma, sk, x)
          [] q.sigma = "sigmaICS" ->
               /\ s < Me2 => x = Val(0)
               /\ s = Me2 => x.nan
               /\ s > Me2 => NonNegative(x)

\* C4: an array that crosses the threshold of triplet pair production: 0
\* below, positive above.
C4_CrossesThreshold ==
  /\ XSCall /\ q.sigma = "sigmaTPP" /\ Len(q.skin) = 2
  /\ PLess(q.skin[1], getSmin(q.sigma).val) /\ q.out.val[1] = Val(0)
  /\ ~PLess(q.skin[2], getSmin(q.sigma).val) /\ q.out.val[2].v > 0

\* C5: a call of the catalogue with an unrecognized sigma ends in an error.
C5_UnknownRaises ==
  q.op # "none" /\ q.sigma \notin Sigmas => q.out.err # "none"

\* C6: no estimate of a quadrature that did not converge is stored in the
\* density-integral file.
C6_NoUnconvergedStored ==
  \A n \in FieldNames : densFile[n].exists =>
    \A i \in 1..Len(densFile[n].vals) : densFile[n].vals[i] # "unconverged"

\* C7: process emits no rate table when no energy of the grid is above E_min.
C7_EmptyDomain ==
  \A r \in Runs : run[r].kind = "process" /\ run[r].wroteRate => run[r].E # <<>>

\* C8: a row that is non-decreasing over the fine grid is non-decreasing over
\* the coarse grid after the downsampling.
C8_MonotonePreserved ==
  ds.stage = "out" /\ ds.out.err = "none" /\ NonDecreasing(ds.row)
    => NonDecreasing(ds.out.val[1])

\* C8: a row that rises was downsampled to fewer points and still rises.
C8_Downsampled ==
  /\ ds.stage = "out" /\ ds.out.err = "none" /\ NonDecreasing(ds.row)
  /\ Len(ds.save) >= 2 /\ Len(ds.save) < Len(ds.skin)
  /\ ds.out.val[1][1] < ds.out.val[1][Len(ds.save)]
  /\ ds.row[1] < ds.row[2]

\* C9: without a working gitHelp no run fails on it.
C9_ProvenanceNeverFails ==
  git # "ok" => \A r \in Runs : run[r].err # "ImportError"

\* C10: of two invocations for one field name, the second begun after the
\* first has ended, at most one integrates and writes.
C10_SerializedOnce ==
  \A r1, r2 \in Runs :
    r1 \in run[r2].after /\ SameField(r1, r2)
      => ~(run[r1].integrated /\ run[r2].integrated)

\* C10: two interleaved invocations for one field name both passed the
\* existence check, both integrated and both wrote the file.
C10_BothIntegrate ==
  \E r1, r2 \in Runs :
    /\ r1 # r2 /\ SameField(r1, r2)
    /\ run[r1].integrated /\ run[r1].wroteDens
    /\ run[r2].integrated /\ run[r2].wroteDens
    /\ intCount[run[r1].field.name] >= 2

====
